---- MODULE Spec2Model ----
(***************************************************************************)
(* A model of gcp_scanner's scanner.py: the traversal of service accounts  *)
(* by crawl_loop, the configuration switch is_set, the discovery of        *)
(* impersonation candidates by get_sas_for_impersonation and the           *)
(* persistence of results by save_results.                                 *)
(*                                                                         *)
(* Python strings that the code inspects (startswith, in, split) are       *)
(* sequences of one-character strings; dictionaries are functions whose    *)
(* DOMAIN is the key set; lists are sequences.                             *)
(***************************************************************************)
EXTENDS Integers, Sequences, FiniteSets, TLC

VARIABLES
  scan_config,              \* argument of crawl_loop
  light_scan,               \* argument of crawl_loop
  target_project,           \* argument of crawl_loop, <<>> when None or ''
  force_projects,           \* argument of crawl_loop
  pc,                       \* position of crawl_loop
  exc,                      \* the exception that left crawl_loop, "none" if none
  service_account_queue,    \* context.service_account_queue
  processed_sas,            \* processed_sas
  sa_name,                  \* the dequeued label
  chain_so_far,             \* the dequeued chain
  sa_results,               \* the in-memory record
  project_list,             \* the projects of the dequeued identity
  pi,                       \* index of the current project in project_list
  ci,                       \* index of the next crawler to run
  iam_policy,               \* local variable iam_policy: [bound, value]
  project_service_accounts, \* candidates of the current project
  si,                       \* index of the next candidate
  files,                    \* out_dir: output path -> [exists, docs]
  errors_logged,            \* logging.error calls: "exists" and "token" records
  started,                  \* history: the identities processed, in order
  dropped,                  \* history: the identities dequeued and dropped
  attempts,                 \* history: impersonation attempts of the current project
  impersonable              \* the answers of the IAM credentials API so far, by label

vars == <<scan_config, light_scan, target_project, force_projects, pc, exc,
          service_account_queue, processed_sas, sa_name, chain_so_far,
          sa_results, project_list, pi, ci, iam_policy,
          project_service_accounts, si, files, errors_logged, started,
          dropped, attempts, impersonable>>

(***************************************************************************)
(* Bounds of the model.                                                    *)
(***************************************************************************)
MaxSeeds == 2
MaxProjects == 2
MaxBindings == 2
MaxMembers == 2
MaxEntries == 2

(***************************************************************************)
(* Python values.                                                          *)
(***************************************************************************)
EmptyDict == <<>>
None == "None"

\* dict.get(k, default)
Get(d, k, default) == IF k \in DOMAIN d THEN d[k] ELSE default

\* d[k] = v
Put(d, k, v) == [x \in (DOMAIN d) \cup {k} |-> IF x = k THEN v ELSE d[x]]

\* s.startswith(p)
StartsWith(s, p) == Len(s) >= Len(p) /\ SubSeq(s, 1, Len(p)) = p

\* t in s, for strings
IsSubstring(t, s) ==
  \E i \in 0..(Len(s) - Len(t)) : SubSeq(s, i + 1, i + Len(t)) = t

\* x in l, for lists
InList(x, l) == \E i \in 1..Len(l) : l[i] = x

\* s.split(sep), sep one character
RECURSIVE Split(_, _)
Split(s, sep) ==
  LET idx == {i \in 1..Len(s) : s[i] = sep}
  IN  IF idx = {}
      THEN <<s>>
      ELSE LET i == CHOOSE j \in idx : \A k \in idx : j <= k
           IN  <<SubSeq(s, 1, i - 1)>> \o Split(SubSeq(s, i + 1, Len(s)), sep)

\* all sequences over S of length at most n
RECURSIVE SeqsUpTo(_, _)
SeqsUpTo(S, n) ==
  IF n = 0
  THEN {<<>>}
  ELSE LET shorter == SeqsUpTo(S, n - 1)
       IN  shorter \cup {Append(s, x) : s \in shorter, x \in S}

(***************************************************************************)
(* Static tables of the module.                                            *)
(***************************************************************************)
light_version_scan_schema ==
  [compute_instances |-> {"name", "zone", "machineType", "networkInterfaces",
                          "status"},
   compute_images |-> {"name", "status", "diskSizeGb", "sourceDisk"},
   machine_images |-> {"name", "description", "status", "sourceInstance",
                       "totalStorageBytes", "savedDisks"},
   compute_disks |-> {"name", "sizeGb", "zone", "status", "sourceImage",
                      "users"},
   compute_snapshots |-> {"name", "status", "sourceDisk", "downloadBytes"},
   managed_zones |-> {"name", "dnsName", "description", "nameServers"},
   sql_instances |-> {"name", "region", "ipAddresses", "databaseVersion",
                      "state"},
   cloud_functions |-> {"name", "eventTrigger", "status", "entryPoint",
                        "serviceAccountEmail"},
   kms |-> {"name", "primary", "purpose", "createTime"},
   services |-> {"name"}]

\* crawler name, client name, in the order of the dictionary
crawl_client_map ==
  << <<"app_services", "appengine">>,
     <<"bigtable_instances", "bigtableadmin">>,
     <<"bq", "bigquery">>,
     <<"cloud_functions", "cloudfunctions">>,
     <<"compute_disks", "compute">>,
     <<"compute_images", "compute">>,
     <<"compute_instances", "compute">>,
     <<"compute_snapshots", "compute">>,
     <<"dns_policies", "dns">>,
     <<"endpoints", "servicemanagement">>,
     <<"filestore_instances", "file">>,
     <<"firewall_rules", "compute">>,
     <<"iam_policy", "cloudresourcemanager">>,
     <<"kms", "cloudkms">>,
     <<"machine_images", "compute">>,
     <<"managed_zones", "dns">>,
     <<"project_info", "cloudresourcemanager">>,
     <<"pubsub_subs", "pubsub">>,
     <<"services", "serviceusage">>,
     <<"service_accounts", "iam">>,
     <<"sourcerepos", "sourcerepo">>,
     <<"spanner_instances", "spanner">>,
     <<"sql_instances", "sqladmin">>,
     <<"static_ips", "compute">>,
     <<"storage_buckets", "storage">>,
     <<"subnets", "compute">> >>

\* the miscellaneous crawlers called after the loop over crawl_client_map
misc_crawlers == <<"gke_clusters", "gke_images">>

\* the crawler names in the order crawl_loop considers them for a project
CrawlerNames ==
  [i \in 1..(Len(crawl_client_map) + Len(misc_crawlers)) |->
     IF i <= Len(crawl_client_map)
     THEN crawl_client_map[i][1]
     ELSE misc_crawlers[i - Len(crawl_client_map)]]

CrawlerSet == {CrawlerNames[i] : i \in 1..Len(CrawlerNames)}

(***************************************************************************)
(* is_set                                                                  *)
(***************************************************************************)
ConfigNone == [is_none |-> TRUE, entries |-> EmptyDict]
Config(d) == [is_none |-> FALSE, entries |-> d]

\* the default of obj.get('fetch', ...)
FetchDefault_True == TRUE
FetchDefault == FALSE

is_set_NoneAsEmpty(config, config_setting) ==
  Get(Get(config.entries, config_setting, EmptyDict), "fetch", FALSE)

is_set(config, config_setting) ==
  IF config.is_none
  THEN TRUE
  ELSE LET obj == Get(config.entries, config_setting, EmptyDict)
       IN  Get(obj, "fetch", FetchDefault)

\* whether crawl_loop tries to impersonate: impers is not None and
\* impers.get('impersonate', False) is True
ImpersonationEnabled(config) ==
  IF config.is_none
  THEN Get([impersonate |-> FALSE], "impersonate", FALSE) = TRUE
  ELSE /\ "service_accounts" \in DOMAIN config.entries
       /\ Get(config.entries["service_accounts"], "impersonate", FALSE) = TRUE

(***************************************************************************)
(* get_sas_for_impersonation                                               *)
(***************************************************************************)
SA_PREFIX == <<"s", "e", "r", "v", "i", "c", "e", "A", "c", "c", "o", "u",
               "n", "t">>

\* the members of all entries, in the order the two loops visit them
RECURSIVE PolicyMembers(_)
PolicyMembers(policy) ==
  IF policy = <<>>
  THEN <<>>
  ELSE Get(Head(policy), "members", <<>>) \o PolicyMembers(Tail(policy))

\* the loop body over the members; an IndexError of split(':')[1] ends it
RECURSIVE CollectSas(_, _)
CollectSas(members, list_of_sas) ==
  IF members = <<>>
  THEN [ok |-> TRUE, sas |-> list_of_sas]
  ELSE LET m == Head(members)
       IN  IF StartsWith(m, SA_PREFIX) /\ InList("@", m)
           THEN LET parts == Split(m, ":")
                IN  IF Len(parts) < 2
                    THEN [ok |-> FALSE, sas |-> list_of_sas]
                    ELSE IF InList(parts[2], list_of_sas)
                         THEN CollectSas(Tail(members), list_of_sas)
                         ELSE CollectSas(Tail(members),
                                         Append(list_of_sas, parts[2]))
           ELSE CollectSas(Tail(members), list_of_sas)

get_sas_for_impersonation(policy) ==
  IF policy = <<>>
  THEN [ok |-> TRUE, sas |-> <<>>]
  ELSE CollectSas(PolicyMembers(policy), <<>>)

(***************************************************************************)
(* save_results                                                            *)
(***************************************************************************)
\* {key: scan_result.get(key) for key in schema}
LightEntry_PresentOnly(scan_result, schema) ==
  [key \in schema \cap DOMAIN scan_result |-> scan_result[key]]
LightEntry(scan_result, schema) ==
  [key \in schema |-> Get(scan_result, key, None)]

\* the effect of the loop over light_version_scan_schema on one project
LightProject(project_data) ==
  [gcp_resource \in (DOMAIN project_data) \cup (DOMAIN light_version_scan_schema) |->
     IF gcp_resource \in DOMAIN light_version_scan_schema
     THEN LET scan_results == Get(project_data, gcp_resource, <<>>)
          IN  [i \in 1..Len(scan_results) |->
                 LightEntry(scan_results[i],
                            light_version_scan_schema[gcp_resource])]
     ELSE project_data[gcp_resource]]

\* the branch is_light is True
LightVersion(res_data) ==
  LET projects == Get(res_data, "projects", EmptyDict)
  IN  Put(res_data, "projects",
          [project_name \in DOMAIN projects |-> LightProject(projects[project_name])])

\* the record that json.dumps serialises; a JSON document is represented by
\* the tree it encodes
SavedData(res_data, is_light) ==
  IF is_light = TRUE THEN LightVersion(res_data) ELSE res_data

\* open(res_path, 'a') and write: the document is appended to the file
AppendToFile(file, doc) ==
  [exists |-> TRUE, docs |-> Append(file.docs, doc)]

(***************************************************************************)
(* The world outside crawl_loop: labels, projects, what the APIs answer.   *)
(***************************************************************************)
LabelA == <<"a", "@">>
LabelB == <<"b", "@">>
LabelC == <<"c", "@">>

\* the labels of the credentials the adapters hand to crawl_loop
SeedLabels == {LabelA, LabelB}

ProjectP == <<"p", "1">>
ProjectQ == <<"q">>
ProjectIds == {ProjectP, ProjectQ}

\* a project as the project_list and project_info crawlers return it
Project(project_id) == [projectId |-> project_id, projectNumber |-> "1"]

\* what the project_list crawler may return
ProjectLists == SeqsUpTo({Project(ProjectP)}, MaxProjects)

ServiceAccountMember(label) == SA_PREFIX \o <<":">> \o label
UserMember == <<"u", "s", "e", "r", ":", "u", "@">>
ColonlessMember == SA_PREFIX \o <<"@">>

\* the IAM policies the iam_policy crawler may return for a project
IamPolicies(project_id) ==
  IF project_id = ProjectP
  THEN {<< [role |-> "roles/owner",
            members |-> <<ServiceAccountMember(LabelC), UserMember>>],
           [role |-> "roles/viewer",
            members |-> <<ServiceAccountMember(LabelC),
                          ServiceAccountMember(LabelA)>>] >>}
  ELSE {<< [role |-> "roles/editor"],
           [role |-> "roles/owner",
            members |-> <<ServiceAccountMember(LabelB)>>] >>,
        << [role |-> "roles/owner", members |-> <<ColonlessMember>>] >>}

\* what a resource crawler returns when it does not fail
CrawlResult(crawler_name, project_id) ==
  IF crawler_name = "project_info"
  THEN Project(project_id)
  ELSE IF crawler_name = "iam_policy"
       THEN CHOOSE policy \in IamPolicies(project_id) : TRUE
       ELSE << [name |-> "r", id |-> "7"] >>

\* the outcomes of a resource crawler's crawl(): a list, or a failure that
\* the crawler signals to its caller
CrawlOutcomes == {"ok", "fail"}

\* credentials.scopes
TokenScopes(label) == <<"cloud-platform">>

\* the arguments crawl_loop is called with
Configs ==
  { ConfigNone,
    Config(EmptyDict),
    Config([service_accounts |-> [fetch |-> TRUE],
            compute_instances |-> [fetch |-> TRUE],
            gke_images |-> [fetch |-> TRUE]]),
    Config([iam_policy |-> [fetch |-> TRUE],
            service_accounts |-> [fetch |-> FALSE, impersonate |-> TRUE]]),
    Config([iam_policy |-> [fetch |-> FALSE],
            compute_disks |-> [fetch |-> TRUE],
            service_accounts |-> [impersonate |-> TRUE]]) }

\* f'{project_id}-{scan_time_suffix}.json' under out_dir
scan_time_suffix == <<"T">>
OutputPath(project_id) == project_id \o <<"-">> \o scan_time_suffix
Paths == {OutputPath(p) : p \in ProjectIds}

\* a document left at a path of this run by an earlier run of the scanner
\* that started within the same second
OldDocument ==
  [service_account_chain |-> <<>>,
   current_service_account |-> LabelA,
   token_scopes |-> TokenScopes(LabelA),
   projects |-> EmptyDict]

Targets == {<<>>, <<"1">>, <<"q">>}
ForceLists == {<<>>, <<ProjectQ>>}
\* the seed lists: the first seed is LabelA, the others are any seed labels,
\* repeated ones included
SeedLists ==
  {seeds \in SeqsUpTo(SeedLabels, MaxSeeds) :
     seeds # <<>> => seeds[1] = LabelA}

(***************************************************************************)
(* crawl_loop                                                              *)
(***************************************************************************)

\* sa_name in processed_sas
AlreadyProcessed_Never(name, processed) == FALSE
AlreadyProcessed(name, processed) == name \in processed

\* chain_so_far + [sa_name]
UpdatedChain_Same(chain, name) == chain
UpdatedChain(chain, name) == Append(chain, name)

\* target_project and target_project not in project['projectId']
FilteredOut(target, project_id) ==
  target # <<>> /\ ~IsSubstring(target, project_id)

\* project_result[key] = value, with project_result =
\* sa_results['projects'][project_id] of the auto-vivifying dictionary
SetProjectKey(results, project_id, key, value) ==
  LET projects == Get(results, "projects", EmptyDict)
      project_result == Get(projects, project_id, EmptyDict)
  IN  Put(results, "projects",
          Put(projects, project_id, Put(project_result, key, value)))

ProjectResult(results, project_id) ==
  Get(Get(results, "projects", EmptyDict), project_id, EmptyDict)

\* the record a fresh identity starts with
NewResults(name, chain) ==
  [service_account_chain |-> chain,
   current_service_account |-> name,
   token_scopes |-> TokenScopes(name)]

\* the entry appended for a forced project, by the outcome of its lookup
ForcedProject(force_project_id, found) ==
  IF found
  THEN Project(force_project_id)
  ELSE [projectId |-> force_project_id, projectNumber |-> "N/A"]

\* the first crawler at or after position i that the configuration enables
NextEnabled(config, i) ==
  LET later == {j \in i..Len(CrawlerNames) : is_set(config, CrawlerNames[j]) = TRUE}
  IN  IF later = {}
      THEN Len(CrawlerNames) + 1
      ELSE CHOOSE j \in later : \A k \in later : j <= k

CurrentProjectId == project_list[pi]["projectId"]

Init ==
  /\ scan_config \in Configs
  /\ light_scan \in BOOLEAN
  /\ target_project \in Targets
  /\ force_projects \in ForceLists
  /\ \E seeds \in SeedLists :
       service_account_queue =
         [i \in 1..Len(seeds) |-> [sa_name |-> seeds[i], chain_so_far |-> <<>>]]
  /\ pc = "loop"
  /\ exc = "none"
  /\ processed_sas = {}
  /\ sa_name = <<>>
  /\ chain_so_far = <<>>
  /\ sa_results = EmptyDict
  /\ project_list = <<>>
  /\ pi = 1
  /\ ci = 1
  /\ iam_policy = [bound |-> FALSE, value |-> <<>>]
  /\ project_service_accounts = <<>>
  /\ si = 1
  /\ \E old \in SUBSET {OutputPath(ProjectP)} :
       files = [path \in Paths |->
                  IF path \in old
                  THEN [exists |-> TRUE, docs |-> <<OldDocument>>]
                  ELSE [exists |-> FALSE, docs |-> <<>>]]
  /\ errors_logged = <<>>
  /\ started = <<>>
  /\ dropped = <<>>
  /\ attempts = <<>>
  /\ impersonable = <<>>

inputs == <<scan_config, light_scan, target_project, force_projects>>

\* line 153: the queue is empty, the loop ends
Finish ==
  /\ pc = "loop"
  /\ service_account_queue = <<>>
  /\ pc' = "done"
  /\ UNCHANGED <<impersonable, inputs, exc, service_account_queue,
                 processed_sas, sa_name, chain_so_far, sa_results,
                 project_list, pi, ci, iam_policy, project_service_accounts,
                 si, files, errors_logged, started, dropped, attempts>>

\* lines 155-157: the dequeued label was processed before
DropProcessed ==
  /\ pc = "loop"
  /\ service_account_queue # <<>>
  /\ LET item == Head(service_account_queue)
     IN  /\ AlreadyProcessed(item.sa_name, processed_sas)
         /\ sa_name' = item.sa_name
         /\ chain_so_far' = item.chain_so_far
  /\ service_account_queue' = Tail(service_account_queue)
  /\ dropped' = Append(dropped, Head(service_account_queue))
  /\ UNCHANGED <<impersonable, inputs, pc, exc, processed_sas, sa_results,
                 project_list, pi, ci, iam_policy, project_service_accounts,
                 si, files, errors_logged, started, attempts>>

\* lines 155-192: a new label is dequeued, its projects are listed and the
\* forced projects are appended
StartIdentity ==
  /\ pc = "loop"
  /\ service_account_queue # <<>>
  /\ LET item == Head(service_account_queue)
     IN  /\ ~AlreadyProcessed(item.sa_name, processed_sas)
         /\ sa_name' = item.sa_name
         /\ chain_so_far' = item.chain_so_far
         /\ processed_sas' = processed_sas \cup {item.sa_name}
         /\ sa_results' = NewResults(item.sa_name, item.chain_so_far)
  /\ service_account_queue' = Tail(service_account_queue)
  /\ \E listed \in ProjectLists :
       \E found \in [1..Len(force_projects) -> BOOLEAN] :
         /\ project_list' =
              listed \o [i \in 1..Len(force_projects) |->
                           ForcedProject(force_projects[i], found[i])]
         /\ started' =
              Append(started, [sa_name |-> Head(service_account_queue).sa_name,
                               chain_so_far |->
                                 Head(service_account_queue).chain_so_far,
                               listed |-> listed])
  /\ pi' = 1
  /\ pc' = "project"
  /\ UNCHANGED <<impersonable, inputs, exc, ci, iam_policy,
                 project_service_accounts, si, files, errors_logged, dropped,
                 attempts>>

\* line 195: the projects of the identity are exhausted
EndIdentity ==
  /\ pc = "project"
  /\ pi > Len(project_list)
  /\ pc' = "loop"
  /\ UNCHANGED <<impersonable, inputs, exc, service_account_queue,
                 processed_sas, sa_name, chain_so_far, sa_results,
                 project_list, pi, ci, iam_policy, project_service_accounts,
                 si, files, errors_logged, started, dropped, attempts>>

\* lines 196-197: the project does not match target_project
SkipProject ==
  /\ pc = "project"
  /\ pi <= Len(project_list)
  /\ FilteredOut(target_project, CurrentProjectId)
  /\ pi' = pi + 1
  /\ UNCHANGED <<impersonable, inputs, pc, exc, service_account_queue,
                 processed_sas, sa_name, chain_so_far, sa_results,
                 project_list, ci, iam_policy, project_service_accounts, si,
                 files, errors_logged, started, dropped, attempts>>

\* open(output_path, 'x'): the file is created, or FileExistsError is caught
\* and logged
ReserveFile(fs, path) ==
  IF fs[path].exists
  THEN fs
  ELSE [fs EXCEPT ![path] = [exists |-> TRUE, docs |-> <<>>]]

\* lines 199-216: the project's record is created and its output path reserved
BeginProject ==
  /\ pc = "project"
  /\ pi <= Len(project_list)
  /\ ~FilteredOut(target_project, CurrentProjectId)
  /\ sa_results' = SetProjectKey(sa_results, CurrentProjectId, "project_info",
                                 project_list[pi])
  /\ files' = ReserveFile(files, OutputPath(CurrentProjectId))
  /\ errors_logged' =
       IF files[OutputPath(CurrentProjectId)].exists
       THEN Append(errors_logged, <<"exists", OutputPath(CurrentProjectId)>>)
       ELSE errors_logged
  /\ ci' = NextEnabled(scan_config, 1)
  /\ attempts' = <<>>
  /\ pc' = "crawl"
  /\ UNCHANGED <<impersonable, inputs, exc, service_account_queue,
                 processed_sas, sa_name, chain_so_far, project_list, pi,
                 iam_policy, project_service_accounts, si, started, dropped>>

\* lines 218-248: one enabled crawler returns and its result is stored.
\* (Line 225 also stores gcs_output_path in the crawler's configuration
\* entry; no fetch or impersonate flag is changed by it.)
CrawlResource ==
  /\ pc = "crawl"
  /\ ci <= Len(CrawlerNames)
  /\ "ok" \in CrawlOutcomes
  /\ sa_results' = SetProjectKey(sa_results, CurrentProjectId, CrawlerNames[ci],
                                 CrawlResult(CrawlerNames[ci], CurrentProjectId))
  /\ ci' = NextEnabled(scan_config, ci + 1)
  /\ UNCHANGED <<impersonable, inputs, pc, exc, service_account_queue,
                 processed_sas, sa_name, chain_so_far, project_list, pi,
                 iam_policy, project_service_accounts, si, files,
                 errors_logged, started, dropped, attempts>>

\* lines 231-235, 240, 245: the crawler signals a failure; nothing catches it
CrawlFails ==
  /\ pc = "crawl"
  /\ ci <= Len(CrawlerNames)
  /\ "fail" \in CrawlOutcomes
  /\ pc' = "aborted"
  /\ exc' = "CrawlerError"
  /\ UNCHANGED <<impersonable, inputs, service_account_queue, processed_sas,
                 sa_name, chain_so_far, sa_results, project_list, pi, ci,
                 iam_policy, project_service_accounts, si, files,
                 errors_logged, started, dropped, attempts>>

\* lines 251-260 when impersonation is off
EscalationDisabled ==
  /\ pc = "crawl"
  /\ ci > Len(CrawlerNames)
  /\ ~ImpersonationEnabled(scan_config)
  /\ sa_results' = SetProjectKey(sa_results, CurrentProjectId,
                                 "service_account_edges", <<>>)
  /\ pc' = "save"
  /\ UNCHANGED <<impersonable, inputs, exc, service_account_queue,
                 processed_sas, sa_name, chain_so_far, project_list, pi, ci,
                 iam_policy, project_service_accounts, si, files,
                 errors_logged, started, dropped, attempts>>

\* the value of iam_policy at line 270: fetched at line 263 when the
\* configuration does not fetch iam_policy, else whatever the local holds
PolicyIsFetched(config) == is_set(config, "iam_policy") = FALSE

\* lines 251-270: the policy is there and the candidates are derived from it
EscalationBegins ==
  /\ pc = "crawl"
  /\ ci > Len(CrawlerNames)
  /\ ImpersonationEnabled(scan_config)
  /\ \E policy \in IamPolicies(CurrentProjectId) :
       /\ iam_policy' = IF PolicyIsFetched(scan_config)
                        THEN [bound |-> TRUE, value |-> policy]
                        ELSE iam_policy
       /\ iam_policy'.bound
       /\ get_sas_for_impersonation(iam_policy'.value).ok
       /\ project_service_accounts' =
            get_sas_for_impersonation(iam_policy'.value).sas
  /\ sa_results' = SetProjectKey(sa_results, CurrentProjectId,
                                 "service_account_edges", <<>>)
  /\ si' = 1
  /\ pc' = "escalate"
  /\ UNCHANGED <<impersonable, inputs, exc, service_account_queue,
                 processed_sas, sa_name, chain_so_far, project_list, pi, ci,
                 files, errors_logged, started, dropped, attempts>>

\* line 270 reads iam_policy, which no line has assigned: UnboundLocalError
EscalationUnbound ==
  /\ pc = "crawl"
  /\ ci > Len(CrawlerNames)
  /\ ImpersonationEnabled(scan_config)
  /\ ~PolicyIsFetched(scan_config)
  /\ ~iam_policy.bound
  /\ sa_results' = SetProjectKey(sa_results, CurrentProjectId,
                                 "service_account_edges", <<>>)
  /\ pc' = "aborted"
  /\ exc' = "UnboundLocalError"
  /\ UNCHANGED <<impersonable, inputs, service_account_queue, processed_sas,
                 sa_name, chain_so_far, project_list, pi, ci, iam_policy,
                 project_service_accounts, si, files, errors_logged, started,
                 dropped, attempts>>

\* line 263: the iam_policy crawler signals a failure; nothing catches it
EscalationFetchFails ==
  /\ pc = "crawl"
  /\ ci > Len(CrawlerNames)
  /\ ImpersonationEnabled(scan_config)
  /\ PolicyIsFetched(scan_config)
  /\ "fail" \in CrawlOutcomes
  /\ sa_results' = SetProjectKey(sa_results, CurrentProjectId,
                                 "service_account_edges", <<>>)
  /\ pc' = "aborted"
  /\ exc' = "CrawlerError"
  /\ UNCHANGED <<impersonable, inputs, service_account_queue, processed_sas,
                 sa_name, chain_so_far, project_list, pi, ci, iam_policy,
                 project_service_accounts, si, files, errors_logged, started,
                 dropped, attempts>>

\* line 356 inside the call of line 270: split(':')[1] of a member without
\* a colon raises IndexError
EscalationIndexError ==
  /\ pc = "crawl"
  /\ ci > Len(CrawlerNames)
  /\ ImpersonationEnabled(scan_config)
  /\ \E policy \in IamPolicies(CurrentProjectId) :
       /\ iam_policy' = IF PolicyIsFetched(scan_config)
                        THEN [bound |-> TRUE, value |-> policy]
                        ELSE iam_policy
       /\ iam_policy'.bound
       /\ ~get_sas_for_impersonation(iam_policy'.value).ok
  /\ sa_results' = SetProjectKey(sa_results, CurrentProjectId,
                                 "service_account_edges", <<>>)
  /\ pc' = "aborted"
  /\ exc' = "IndexError"
  /\ UNCHANGED <<impersonable, inputs, service_account_queue, processed_sas,
                 sa_name, chain_so_far, project_list, pi, ci,
                 project_service_accounts, si, files, errors_logged, started,
                 dropped, attempts>>

\* the outcomes of credsdb.impersonate_sa: TRUE for credentials, FALSE for
\* an exception. Whether a label can be impersonated is decided by the
\* platform at the first attempt and stays the same for the run.
ImpersonationOutcomes(name, candidate_service_account) ==
  IF candidate_service_account \in DOMAIN impersonable
  THEN {impersonable[candidate_service_account]}
  ELSE BOOLEAN

\* the record after lines 276-279 (success) or lines 282-285 (failure)
EdgesAfter_Always(edges, candidate_service_account, succeeded) ==
  Append(edges, candidate_service_account)
EdgesAfter(edges, candidate_service_account, succeeded) ==
  IF succeeded THEN Append(edges, candidate_service_account) ELSE edges

\* the queue after lines 276-277 (success) or lines 282-285 (failure)
QueueAfter_Front(queue, candidate_service_account, updated_chain, succeeded) ==
  IF succeeded
  THEN <<[sa_name |-> candidate_service_account,
          chain_so_far |-> updated_chain]>> \o queue
  ELSE queue
QueueAfter(queue, candidate_service_account, updated_chain, succeeded) ==
  IF succeeded
  THEN Append(queue, [sa_name |-> candidate_service_account,
                      chain_so_far |-> updated_chain])
  ELSE queue

\* lines 271-285: one candidate is tried
Impersonate ==
  /\ pc = "escalate"
  /\ si <= Len(project_service_accounts)
  /\ LET candidate_service_account == project_service_accounts[si]
         edges == ProjectResult(sa_results, CurrentProjectId)["service_account_edges"]
     IN  \E succeeded \in ImpersonationOutcomes(sa_name, candidate_service_account) :
           /\ service_account_queue' =
                QueueAfter(service_account_queue, candidate_service_account,
                           UpdatedChain(chain_so_far, sa_name), succeeded)
           /\ sa_results' =
                SetProjectKey(sa_results, CurrentProjectId,
                              "service_account_edges",
                              EdgesAfter(edges, candidate_service_account, succeeded))
           /\ errors_logged' =
                IF succeeded
                THEN errors_logged
                ELSE Append(errors_logged, <<"token", candidate_service_account>>)
           /\ impersonable' = Put(impersonable, candidate_service_account,
                                   succeeded)
           /\ attempts' = Append(attempts, [candidate |-> candidate_service_account,
                                            succeeded |-> succeeded])
  /\ si' = si + 1
  /\ UNCHANGED <<inputs, pc, exc, processed_sas, sa_name, chain_so_far,
                 project_list, pi, ci, iam_policy, project_service_accounts,
                 files, started, dropped>>

\* line 291: sa_results.clear()
Cleared_Kept(results) == results
Cleared(results) == EmptyDict

\* lines 287-291: the record is saved to the project's path and cleared
SaveProject ==
  /\ \/ pc = "save"
     \/ pc = "escalate" /\ si > Len(project_service_accounts)
  /\ files' = [files EXCEPT ![OutputPath(CurrentProjectId)] =
                 AppendToFile(@, SavedData(sa_results, light_scan))]
  /\ sa_results' = Cleared(sa_results)
  /\ pi' = pi + 1
  /\ pc' = "project"
  /\ UNCHANGED <<impersonable, inputs, exc, service_account_queue,
                 processed_sas, sa_name, chain_so_far, project_list, ci,
                 iam_policy, project_service_accounts, si, errors_logged,
                 started, dropped, attempts>>

Next ==
  \/ Finish
  \/ DropProcessed
  \/ StartIdentity
  \/ EndIdentity
  \/ SkipProject
  \/ BeginProject
  \/ CrawlResource
  \/ CrawlFails
  \/ EscalationDisabled
  \/ EscalationBegins
  \/ EscalationUnbound
  \/ EscalationFetchFails
  \/ EscalationIndexError
  \/ Impersonate
  \/ SaveProject

Spec == Init /\ [][Next]_vars

\* crawl_loop is one sequential loop: while it has not ended or raised, it
\* takes its next step
FairSpec == Spec /\ WF_vars(Next)

(***************************************************************************)
(* The functions of the module called on their own, with crawl_loop at     *)
(* rest.                                                                   *)
(***************************************************************************)
idle == <<scan_config, target_project, force_projects, service_account_queue,
          processed_sas, sa_name, chain_so_far, project_list, pi, ci, si,
          errors_logged, started, dropped, attempts, impersonable>>

CrawlLoopIdle ==
  /\ scan_config = ConfigNone
  /\ target_project = <<>>
  /\ force_projects = <<>>
  /\ service_account_queue = <<>>
  /\ processed_sas = {}
  /\ sa_name = <<>>
  /\ chain_so_far = <<>>
  /\ project_list = <<>>
  /\ pi = 1
  /\ ci = 1
  /\ si = 1
  /\ errors_logged = <<>>
  /\ started = <<>>
  /\ dropped = <<>>
  /\ attempts = <<>>
  /\ impersonable = <<>>

\* member strings: a service account, a user, and a string that begins with
\* 'serviceAccount' and holds an '@' without being 'serviceAccount:<address>'
MemberStrings == {ServiceAccountMember(LabelA), UserMember, ColonlessMember}

\* the entries of a policy: with a member list, or without the key
PolicyBindings ==
  {[role |-> "roles/owner"]} \cup
  {[role |-> "roles/owner", members |-> members] :
     members \in SeqsUpTo(MemberStrings, MaxMembers)}

\* the policies get_sas_for_impersonation is called with; None and [] are
\* both falsy at line 349 and are both the empty sequence here
Policies == SeqsUpTo(PolicyBindings, MaxBindings)

SasInit ==
  /\ CrawlLoopIdle
  /\ light_scan = FALSE
  /\ sa_results = EmptyDict
  /\ files = [path \in Paths |-> [exists |-> FALSE, docs |-> <<>>]]
  /\ pc = "get_sas"
  /\ exc = "none"
  /\ \E policy \in Policies : iam_policy = [bound |-> TRUE, value |-> policy]
  /\ project_service_accounts = <<>>

\* lines 349-360: the call returns list_of_sas
GetSasReturns ==
  /\ pc = "get_sas"
  /\ get_sas_for_impersonation(iam_policy.value).ok
  /\ project_service_accounts' = get_sas_for_impersonation(iam_policy.value).sas
  /\ pc' = "returned"
  /\ UNCHANGED <<idle, light_scan, sa_results, files, exc, iam_policy>>

\* line 356: split(':')[1] raises IndexError
GetSasRaises ==
  /\ pc = "get_sas"
  /\ ~get_sas_for_impersonation(iam_policy.value).ok
  /\ pc' = "aborted"
  /\ exc' = "IndexError"
  /\ UNCHANGED <<idle, light_scan, sa_results, files, iam_policy,
                 project_service_accounts>>

SasNext ==
  \/ GetSasReturns
  \/ GetSasRaises

SpecSas == SasInit /\ [][SasNext]_vars

\* entries of a resource list as crawlers return them: with a field the
\* reduced schema does not list, with every field compute_instances lists,
\* with no listed field at all
ResourceEntries ==
  {[name |-> "r", id |-> "7"],
   [name |-> "r", zone |-> "z", machineType |-> "m",
    networkInterfaces |-> "n", status |-> "s"],
   [id |-> "7"]}

ResourceLists == SeqsUpTo(ResourceEntries, MaxEntries)

\* the data of one project: project_info and the edges, a resource type
\* without reduced schema, and any of two resource types with one
ProjectDatas ==
  LET base == [project_info |-> Project(ProjectP),
               service_account_edges |-> <<LabelB>>,
               storage_buckets |-> << [name |-> "r", id |-> "7"] >>]
      WithInstances ==
        {base} \cup {Put(base, "compute_instances", l) : l \in ResourceLists}
  IN  WithInstances \cup
      {Put(d, "services", l) : d \in WithInstances, l \in ResourceLists}

\* the records save_results is called with: an identity's record with one
\* project, and a record that has no 'projects' key
Records ==
  {NewResults(LabelA, <<>>)} \cup
  {Put(NewResults(LabelA, <<>>), "projects", Put(EmptyDict, ProjectP, d)) :
     d \in ProjectDatas}

LightInit ==
  /\ CrawlLoopIdle
  /\ light_scan \in BOOLEAN
  /\ sa_results \in Records
  /\ files = [path \in Paths |-> [exists |-> FALSE, docs |-> <<>>]]
  /\ pc = "save_results"
  /\ exc = "none"
  /\ iam_policy = [bound |-> FALSE, value |-> <<>>]
  /\ project_service_accounts = <<>>

\* lines 102-129: res_data is filtered in place when is_light is True, then
\* written to res_path
save_results ==
  /\ pc = "save_results"
  /\ sa_results' = SavedData(sa_results, light_scan)
  /\ files' = [files EXCEPT ![OutputPath(ProjectP)] =
                 AppendToFile(@, SavedData(sa_results, light_scan))]
  /\ pc' = "saved"
  /\ UNCHANGED <<idle, light_scan, exc, iam_policy, project_service_accounts>>

\* lines 102-129 once more, on the record the first call left
save_results_again ==
  /\ pc = "saved"
  /\ sa_results' = SavedData(sa_results, light_scan)
  /\ files' = [files EXCEPT ![OutputPath(ProjectP)] =
                 AppendToFile(@, SavedData(sa_results, light_scan))]
  /\ pc' = "saved_again"
  /\ UNCHANGED <<idle, light_scan, exc, iam_policy, project_service_accounts>>

LightNext ==
  \/ save_results
  \/ save_results_again

SpecLight == LightInit /\ [][LightNext]_vars

(***************************************************************************)
(* Properties.                                                             *)
(***************************************************************************)
TopLevelKeys ==
  {"service_account_chain", "current_service_account", "token_scopes",
   "projects"}

InProject == pc \in {"crawl", "escalate", "save"}
AtSave == pc = "save" \/ (pc = "escalate" /\ si > Len(project_service_accounts))

EdgesOf(results, project_id) ==
  Get(ProjectResult(results, project_id), "service_account_edges", <<>>)

ProjectsOfDoc(doc) == Get(doc, "projects", EmptyDict)

\* the number of documents of a file that hold a project under `projects`
DocsWithProject(path, project_id) ==
  Cardinality({k \in 1..Len(files[path].docs) :
                 project_id \in DOMAIN ProjectsOfDoc(files[path].docs[k])})

NoRepeatedLabel(identities) ==
  \A i, j \in 1..Len(identities) :
    i # j => identities[i].sa_name # identities[j].sa_name

AllChainsEmpty(identities) ==
  \A i \in 1..Len(identities) : identities[i].chain_so_far = <<>>

\* one step of the run, as the dedup invariant wants it
C1_DedupStep ==
  /\ processed_sas \subseteq processed_sas'
  /\ NoRepeatedLabel(started')
  /\ (started' # started =>
        /\ started'[Len(started')].sa_name \notin processed_sas
        /\ started'[Len(started')].sa_name \in processed_sas')
  /\ (/\ pc = "loop"
      /\ service_account_queue # <<>>
      /\ Head(service_account_queue).sa_name \in processed_sas)
     => /\ service_account_queue' = Tail(service_account_queue)
        /\ UNCHANGED <<pc, processed_sas, sa_results, project_list, files,
                       started, attempts, impersonable, errors_logged>>
\* C1: each label is processed at most once per run; a dequeued identity
\* whose label is in processed_sas is dropped without crawl, enqueue or
\* write; processed_sas never loses an element.
C1_Dedup == processed_sas = {} /\ started = <<>> /\ [][C1_DedupStep]_vars

\* C1 witness: the run ended after an identity enqueued by escalation was
\* dropped because its label had been processed.
C1_Witness ==
  /\ pc = "done"
  /\ \E i \in 1..Len(dropped) : dropped[i].chain_so_far # <<>>

\* the chain is empty, or the chain of a processed identity followed by
\* that identity's label
ChainOfDiscoverer(chain) ==
  \/ chain = <<>>
  \/ \E i \in 1..Len(started) :
       /\ started[i].sa_name = chain[Len(chain)]
       /\ started[i].chain_so_far = SubSeq(chain, 1, Len(chain) - 1)

C2_ChainsInv ==
  /\ \A i \in 1..Len(service_account_queue) :
       ChainOfDiscoverer(service_account_queue[i].chain_so_far)
  /\ \A i \in 1..Len(started) : ChainOfDiscoverer(started[i].chain_so_far)

C2_EnqueueStep ==
  Len(service_account_queue') > Len(service_account_queue) =>
    /\ pc = "escalate"
    /\ service_account_queue' =
         Append(service_account_queue,
                [sa_name |-> project_service_accounts[si],
                 chain_so_far |-> chain_so_far \o <<sa_name>>])

\* C2: seeds carry the empty chain; an identity enqueued while identity I is
\* processed carries I's chain followed by I's label, so every chain on the
\* frontier is one hop longer than the chain of the identity that found it.
C2_ChainMonotonicity ==
  /\ AllChainsEmpty(service_account_queue)
  /\ [][C2_EnqueueStep /\ C2_ChainsInv']_vars

\* C2 witness: an identity reached over two hops is being processed.
C2_Witness ==
  \E i \in 1..Len(started) : Len(started[i].chain_so_far) = 2

\* C3: no output file ever holds more than one document (a second persist
\* to a populated path fails and leaves the file as it was).
C3_NoOverwrite == \A path \in Paths : Len(files[path].docs) <= 1

\* C4: every document written has the four top-level keys, with the chain
\* and the label of the identity being processed.
C4_DocumentKeys ==
  [][\A path \in Paths :
       files'[path].docs # files[path].docs =>
         LET doc == files'[path].docs[Len(files'[path].docs)]
         IN  /\ TopLevelKeys \subseteq DOMAIN doc
             /\ doc["service_account_chain"] = chain_so_far
             /\ doc["current_service_account"] = sa_name]_vars

\* C5: when the projects of an identity are exhausted, every forced project
\* has been persisted under `projects` once for each identity processed so
\* far.
C5_ForcedProjects ==
  (pc = "project" /\ pi > Len(project_list)) =>
    \A i \in 1..Len(force_projects) :
      DocsWithProject(OutputPath(force_projects[i]), force_projects[i])
        >= Len(started)

SucceededCandidates(atts) ==
  LET won == SelectSeq(atts, LAMBDA a : a.succeeded)
  IN  [k \in 1..Len(won) |-> won[k].candidate]

C6_EdgesInv ==
  pc = "escalate" =>
    /\ Len(attempts) = si - 1
    /\ \A k \in 1..Len(attempts) :
         attempts[k].candidate = project_service_accounts[k]
    /\ EdgesOf(sa_results, CurrentProjectId) = SucceededCandidates(attempts)

C6_AttemptStep ==
  (pc = "escalate" /\ si <= Len(project_service_accounts)) =>
    LET candidate == project_service_accounts[si]
    IN  /\ pc' = "escalate"
        /\ exc' = "none"
        /\ si' = si + 1
        /\ Len(attempts') = Len(attempts) + 1
        /\ attempts'[Len(attempts')].candidate = candidate
        /\ IF attempts'[Len(attempts')].succeeded
           THEN /\ service_account_queue' =
                     Append(service_account_queue,
                            [sa_name |-> candidate,
                             chain_so_far |-> chain_so_far \o <<sa_name>>])
                /\ EdgesOf(sa_results', CurrentProjectId) =
                     Append(EdgesOf(sa_results, CurrentProjectId), candidate)
           ELSE /\ service_account_queue' = service_account_queue
                /\ EdgesOf(sa_results', CurrentProjectId) =
                     EdgesOf(sa_results, CurrentProjectId)

C6_SaveStep ==
  (pc = "escalate" /\ si > Len(project_service_accounts)) =>
    LET path == OutputPath(CurrentProjectId)
        doc == files'[path].docs[Len(files'[path].docs)]
    IN  /\ pc' = "project"
        /\ ProjectsOfDoc(doc)[CurrentProjectId]["service_account_edges"] =
             SucceededCandidates(attempts)

\* C6: a failed impersonation leaves the frontier and the project's
\* service_account_edges as they were and the next candidate is tried; the
\* candidates are tried in order; service_account_edges holds exactly the
\* candidates whose impersonation succeeded, each of which was enqueued.
C6_ImpersonationContained ==
  [][C6_AttemptStep /\ C6_SaveStep /\ C6_EdgesInv']_vars

\* C6 witness: in one project a failed attempt was followed by a successful
\* one.
C6_Witness ==
  /\ pc = "escalate"
  /\ \E i, j \in 1..Len(attempts) :
       i < j /\ ~attempts[i].succeeded /\ attempts[j].succeeded

\* C7: a failure signalled by a resource crawler does not end the run.
C7_CrawlerFailureContained == ~(pc = "aborted" /\ exc = "CrawlerError")

\* C8: when the output path exists at reservation, the project is skipped:
\* no crawler runs, nothing is enqueued or written, the loop moves to the
\* next project.
C8_ExistingPathSkipsProject ==
  [][(/\ pc = "project"
      /\ pi <= Len(project_list)
      /\ ~FilteredOut(target_project, CurrentProjectId)
      /\ files[OutputPath(CurrentProjectId)].exists)
     => /\ pc' = "project"
        /\ pi' = pi + 1
        /\ files' = files
        /\ service_account_queue' = service_account_queue
        /\ errors_logged' # errors_logged]_vars

\* every project of every document holds every resource type and no edges
FullyCrawledDocs ==
  \A path \in Paths : \A k \in 1..Len(files[path].docs) :
    LET projects == ProjectsOfDoc(files[path].docs[k])
    IN  \A project_id \in DOMAIN projects :
          /\ CrawlerSet \subseteq DOMAIN projects[project_id]
          /\ projects[project_id]["service_account_edges"] = <<>>

NoEscalation ==
  /\ attempts = <<>>
  /\ impersonable = <<>>
  /\ pc # "escalate"
  /\ AllChainsEmpty(service_account_queue)
  /\ AllChainsEmpty(started)
  /\ AllChainsEmpty(dropped)

\* C9 as stated: with no configuration every persisted project holds every
\* resource type and no edges, nothing is impersonated or enqueued, and the
\* finished run has written a file for each project a seed can access.
C9_NullConfigEveryProject ==
  scan_config.is_none =>
    /\ FullyCrawledDocs
    /\ NoEscalation
    /\ (pc = "done" =>
          \A i \in 1..Len(started) : \A k \in 1..Len(started[i].listed) :
            LET project_id == started[i].listed[k]["projectId"]
            IN  DocsWithProject(OutputPath(project_id), project_id) >= 1)

\* C9 amended: as C9, for the projects a seed can access that pass the
\* target_project filter.
C9_NullConfig ==
  scan_config.is_none =>
    /\ FullyCrawledDocs
    /\ NoEscalation
    /\ (pc = "done" =>
          \A i \in 1..Len(started) : \A k \in 1..Len(started[i].listed) :
            LET project_id == started[i].listed[k]["projectId"]
            IN  ~FilteredOut(target_project, project_id) =>
                  DocsWithProject(OutputPath(project_id), project_id) >= 1)

\* C9 witness: a run without configuration ended after a seed's project was
\* written.
C9_Witness ==
  /\ scan_config.is_none
  /\ pc = "done"
  /\ \E i \in 1..Len(started) :
       /\ started[i].listed # <<>>
       /\ DocsWithProject(OutputPath(ProjectP), ProjectP) >= 1

Unconfigured(crawler_name) ==
  ~scan_config.is_none /\ crawler_name \notin DOMAIN scan_config.entries

ImpersonateFlagAbsent ==
  /\ ~scan_config.is_none
  /\ \/ "service_accounts" \notin DOMAIN scan_config.entries
     \/ "impersonate" \notin DOMAIN scan_config.entries["service_accounts"]

IsServicePrincipal(member) ==
  StartsWith(member, SA_PREFIX \o <<":">>) /\ InList("@", member)

\* the component after the first ':'
AddressOf(member) == Split(member, ":")[2]

PrincipalAddresses(policy) ==
  LET members == PolicyMembers(policy)
  IN  {AddressOf(members[i]) :
         i \in {j \in 1..Len(members) : IsServicePrincipal(members[j])}}

NoDuplicates(list) ==
  \A i, j \in 1..Len(list) : i # j => list[i] # list[j]

\* C11: for every policy get_sas_for_impersonation returns, without failing,
\* the addresses of the members that are service-identity principals, each
\* once, and nothing else; nothing for the empty policy.
C11_Discovery ==
  pc # "get_sas" =>
    /\ pc = "returned"
    /\ exc = "none"
    /\ NoDuplicates(project_service_accounts)
    /\ {project_service_accounts[i] : i \in 1..Len(project_service_accounts)}
         = PrincipalAddresses(iam_policy.value)
    /\ (iam_policy.value = <<>> => project_service_accounts = <<>>)

LastDoc(fs, path) == fs[path].docs[Len(fs[path].docs)]

SchemaTypes == DOMAIN light_version_scan_schema

\* the entry holds exactly the listed fields: the values of the full entry,
\* null where the full entry has none
IsReducedEntry(light_entry, full_entry, schema) ==
  /\ DOMAIN light_entry = schema
  /\ \A key \in schema :
       light_entry[key] = IF key \in DOMAIN full_entry
                          THEN full_entry[key]
                          ELSE None

\* the document written is the filtered record: every entry of every
\* resource list of the record that has a field list is reduced to it
C12_FilterStep ==
  (pc = "save_results" /\ light_scan) =>
    LET doc == LastDoc(files', OutputPath(ProjectP))
        before == ProjectsOfDoc(sa_results)
        after == ProjectsOfDoc(doc)
    IN  /\ DOMAIN before \subseteq DOMAIN after
        /\ \A project_name \in DOMAIN before :
             \A gcp_resource \in SchemaTypes \cap DOMAIN before[project_name] :
               LET full_list == before[project_name][gcp_resource]
                   light_list == after[project_name][gcp_resource]
               IN  /\ Len(light_list) = Len(full_list)
                   /\ \A k \in 1..Len(full_list) :
                        IsReducedEntry(light_list[k], full_list[k],
                                       light_version_scan_schema[gcp_resource])
        /\ SavedData(SavedData(sa_results, TRUE), TRUE) =
             SavedData(sa_results, TRUE)

\* filtering the filtered record again writes the same document
C12_AgainStep ==
  (pc = "saved" /\ light_scan) =>
    /\ LastDoc(files', OutputPath(ProjectP)) =
         LastDoc(files, OutputPath(ProjectP))
    /\ sa_results' = sa_results

\* C12: in light mode every entry of every resource list that has a reduced
\* schema is replaced by a mapping whose keys are exactly the schema's
\* fields, with null for the fields the entry lacks, and filtering twice
\* gives what filtering once gives.
C12_FidelityFilter == [][C12_FilterStep /\ C12_AgainStep]_vars

\* C12 witness: a record was filtered twice whose compute_instances list has
\* an entry that lost a field and gained a null one.
C12_Witness ==
  /\ pc = "saved_again"
  /\ light_scan
  /\ Len(files[OutputPath(ProjectP)].docs) = 2
  /\ LET projects == ProjectsOfDoc(LastDoc(files, OutputPath(ProjectP)))
     IN  /\ ProjectP \in DOMAIN projects
         /\ \E k \in 1..Len(projects[ProjectP]["compute_instances"]) :
              /\ projects[ProjectP]["compute_instances"][k]["name"] = "r"
              /\ projects[ProjectP]["compute_instances"][k]["zone"] = None

\* C13: the filter changes only the resource lists of the record that have
\* a reduced schema: every other key of a project's data keeps its value
\* and no key is added to or removed from a project's data.
C13_FilterFrame ==
  [][(pc = "save_results" /\ light_scan) =>
       LET doc == LastDoc(files', OutputPath(ProjectP))
           before == ProjectsOfDoc(sa_results)
           after == ProjectsOfDoc(doc)
       IN  /\ \A key \in DOMAIN sa_results \ {"projects"} :
                key \in DOMAIN doc /\ doc[key] = sa_results[key]
           /\ DOMAIN after = DOMAIN before
           /\ \A project_name \in DOMAIN before :
                /\ DOMAIN after[project_name] = DOMAIN before[project_name]
                /\ \A key \in DOMAIN before[project_name] \ SchemaTypes :
                     after[project_name][key] = before[project_name][key]]_vars

\* C14: with impersonation on and iam_policy fetched by the configuration,
\* the escalation of a project runs over the policy the iam_policy crawler
\* stored for that project and the traversal goes on.
C14_ReusesFetchedPolicy ==
  (ImpersonationEnabled(scan_config) /\ is_set(scan_config, "iam_policy") = TRUE)
    => /\ exc # "UnboundLocalError"
       /\ pc = "escalate" =>
            /\ iam_policy.bound
            /\ iam_policy.value =
                 ProjectResult(sa_results, CurrentProjectId)["iam_policy"]
            /\ project_service_accounts =
                 get_sas_for_impersonation(iam_policy.value).sas

\* C15: a candidate whose label is in processed_sas is neither impersonated
\* nor put on the frontier.
C15_VisitedNotImpersonated ==
  [][(/\ pc = "escalate"
      /\ si <= Len(project_service_accounts)
      /\ project_service_accounts[si] \in processed_sas)
     => /\ service_account_queue' = service_account_queue
        /\ attempts' = attempts
        /\ impersonable' = impersonable]_vars

\* every entry that has been on the frontier: processed, dropped or waiting
FrontierEntries ==
  {[sa_name |-> started[i].sa_name, chain_so_far |-> started[i].chain_so_far] :
     i \in 1..Len(started)}
  \cup {dropped[i] : i \in 1..Len(dropped)}
  \cup {service_account_queue[i] : i \in 1..Len(service_account_queue)}

\* the frontier is taken from its head and extended at its tail
C16_FifoStep ==
  service_account_queue' # service_account_queue =>
    \/ /\ service_account_queue # <<>>
       /\ service_account_queue' = Tail(service_account_queue)
       /\ sa_name' = Head(service_account_queue).sa_name
       /\ chain_so_far' = Head(service_account_queue).chain_so_far
    \/ \E entry \in FrontierEntries' :
         service_account_queue' = Append(service_account_queue, entry)

\* the chains on the frontier do not get shorter towards its tail and are at
\* most one hop longer than the chain of the identity last dequeued; a
\* processed identity has a shortest chain among the entries of its label
C16_ShortestInv ==
  /\ \A i, j \in 1..Len(service_account_queue) :
       i < j => Len(service_account_queue[i].chain_so_far)
                  <= Len(service_account_queue[j].chain_so_far)
  /\ \A i \in 1..Len(service_account_queue) :
       /\ Len(chain_so_far) <= Len(service_account_queue[i].chain_so_far)
       /\ Len(service_account_queue[i].chain_so_far) <= Len(chain_so_far) + 1
  /\ \A i, j \in 1..Len(started) :
       i < j => Len(started[i].chain_so_far) <= Len(started[j].chain_so_far)
  /\ \A i \in 1..Len(started) : \A entry \in FrontierEntries :
       entry.sa_name = started[i].sa_name
         => Len(started[i].chain_so_far) <= Len(entry.chain_so_far)

\* C16: identities are processed in the order in which they entered the
\* frontier, so the chain of a processed identity is a shortest one among
\* the chains with which its label was put on the frontier.
C16_BreadthFirst ==
  /\ AllChainsEmpty(service_account_queue)
  /\ [][C16_FifoStep /\ C16_ShortestInv']_vars

\* C16 witness: a label reached over one hop was processed, and an entry of
\* an already processed label arrived over a longer chain and was dropped.
C16_Witness ==
  /\ \E i \in 1..Len(started) : Len(started[i].chain_so_far) = 1
  /\ \E i \in 1..Len(started) : \E k \in 1..Len(dropped) :
       /\ dropped[k].sa_name = started[i].sa_name
       /\ Len(dropped[k].chain_so_far) > Len(started[i].chain_so_far)

\* C17: crawl_loop ends with an empty frontier.
C17_Termination == <>(pc = "done" /\ service_account_queue = <<>>)

\* the documents this run has written to a path
RunDocs(path) ==
  {k \in 1..Len(files[path].docs) : files[path].docs[k] # OldDocument}

\* the documents of this run that carry a label as current_service_account
DocsOfIdentity(name) ==
  UNION {{<<path, k>> :
            k \in {j \in RunDocs(path) :
                     /\ "current_service_account" \in DOMAIN files[path].docs[j]
                     /\ files[path].docs[j]["current_service_account"] = name}} :
         path \in Paths}

\* C18: once an identity has been processed, its record has been persisted
\* exactly once, also when it could access no project.
C18_PersistedOnce ==
  pc \in {"loop", "done"} =>
    \A i \in 1..Len(started) :
      Cardinality(DocsOfIdentity(started[i].sa_name)) = 1

\* the identities whose documents a path holds
WritersOf(path) ==
  {files[path].docs[k]["current_service_account"] :
     k \in {j \in RunDocs(path) :
              "current_service_account" \in DOMAIN files[path].docs[j]}}

\* C19: no output path is written by more than one identity of the run.
C19_DisjointPaths == \A path \in Paths : Cardinality(WritersOf(path)) <= 1

\* C20: every document written by crawl_loop holds exactly one project under
\* `projects`, the project of the path it is written to.
C20_OneProjectPerDocument ==
  \A path \in Paths : \A k \in RunDocs(path) :
    \E project_id \in ProjectIds :
      /\ DOMAIN ProjectsOfDoc(files[path].docs[k]) = {project_id}
      /\ OutputPath(project_id) = path

\* C20 witness: one identity has saved a first project and then a second
\* one to another path.
C20_Witness ==
  /\ Len(started) = 1
  /\ pc = "project"
  /\ RunDocs(OutputPath(ProjectP)) # {}
  /\ RunDocs(OutputPath(ProjectQ)) # {}

====
